---- MODULE Spec2Model ----
(***************************************************************************)
(* A model of aticie/DMoN-Rewrite:                                         *)
(*   src/src/train_folds.py              train_folds                       *)
(*   src/src/utilities/visualization.py  get_gt_graph, draw_gt_graph,      *)
(*                                       show_results_on_graph,            *)
(*                                       plot_single_experiment,           *)
(*                                       draw_camera_cocktail              *)
(*                                                                         *)
(* Python floats are carried as integers counting thousandths (0.4 is 400, *)
(* 1.0 is 1000); math.pi/4 is carried as its nearest thousandth.           *)
(***************************************************************************)
EXTENDS Integers, Sequences, FiniteSets, TLC

VARIABLES
    \* ---- train_folds ----
    best_config,      \* the argument best_config (flat, or nested under 'common')
    dataset_path,     \* the argument dataset_path, as its path components
    tf_pc,            \* "entry" | "loop" | "running" | "done" | "raised"
    fold,             \* the loop variable of `for fold in range(1, 6)`
    invocations,      \* the command lines handed to subprocess.run, in order
    returncodes,      \* the exit status of each trainer process that has returned
    tf_error,         \* the key of the uncaught KeyError, "" when none
    edges_from_gt,    \* the local edges_from_gt of lines 23-26
    \* ---- graphs (visualization.py) ----
    heap,             \* the nx.Graph objects alive, by reference
    gt_ref,           \* the reference get_gt_graph returned last, "" before
    gt_input,         \* the graph get_gt_graph was last given, as it was on entry
    gt_calls,         \* how many times get_gt_graph has been applied
    panels,           \* what has been drawn on each matplotlib axes
    \* ---- draw_camera_cocktail ----
    index_files,      \* the lines of <camera_path>/index.dmp, by camera path
    file_reads,       \* how many times each index.dmp has been opened and parsed
    cam_calls,        \* how many calls of draw_camera_cocktail have been made
    cam_last,         \* the last call: its arguments, the index found and the image shown
    \* ---- matplotlib figures; show_results_on_graph, plot_single_experiment ----
    open_figs,        \* the numbers of the figures pyplot holds open
    figs_before,      \* the figures that were open before the first call
    any_raised,       \* whether some call so far ended in an exception
    fig_calls,        \* how many calls of the two functions have been made
    plot_returns,     \* how many calls of plot_single_experiment returned normally
    show_entry,       \* the caller's graph as it was when show_results_on_graph was entered
    show_preds,       \* the predictions argument of that call
    show_stage        \* where that call ended: "done", or the step that raised

tfVars == <<best_config, dataset_path, tf_pc, fold, invocations, returncodes,
            tf_error, edges_from_gt>>

graphVars == <<heap, gt_ref, gt_input, gt_calls, panels>>

camVars == <<index_files, file_reads, cam_calls, cam_last>>

figVars == <<open_figs, figs_before, any_raised, fig_calls, plot_returns,
             show_entry, show_preds, show_stage>>

vars == <<tfVars, graphVars, camVars, figVars>>

(***************************************************************************)
(* Bounds of the model.                                                    *)
(***************************************************************************)
MaxMissing == 1        \* how many keys a configuration may lack
MaxReturncode == 1     \* trainer exit statuses are 0..MaxReturncode
MaxNodes == 3          \* nodes of a scene graph are 1..MaxNodes
MaxLabel == 1          \* membership labels are 0..MaxLabel
MaxInputEdges == 2     \* how many edges (self-loops included) an input graph has
MaxGtCalls == 3        \* get_gt_graph is applied at most this many times in a row
MaxDrawNodes == 3      \* nodes of a graph given to draw_gt_graph are 1..MaxDrawNodes
MaxTime == 3           \* frame times and timestamps are 0..MaxTime (and one beyond)
MaxLines == 4          \* lines of an index file, the trailing one included
MaxCamCalls == 3       \* calls of draw_camera_cocktail in a row
MaxShowNodes == 3      \* nodes of a graph given to show_results_on_graph
MaxFigCalls == 3       \* calls of the two figure-making functions in a row
MaxSeriesLen == 1      \* how many values a metrics series has

(***************************************************************************)
(* train_folds (src/src/train_folds.py)                                    *)
(***************************************************************************)
\* The lookups of lines 13-22 with the one of features_as_pos left out.
LookupOrderNoFeatures ==
    <<"architecture", "dropout_rate", "collapse_regularization", "n_clusters",
      "learning_rate", "frustum_length", "frustum_angle", "edge_cutoff">>
\* The keys train_folds reads with best_config[...], in the order of lines 13-22.
LookupOrder ==
    <<"architecture", "dropout_rate", "collapse_regularization", "n_clusters",
      "learning_rate", "frustum_length", "frustum_angle", "edge_cutoff",
      "features_as_pos">>

\* The keys a saved configuration can hold that train_folds looks at.
ConfigKeys ==
    {"architecture", "dropout_rate", "collapse_regularization", "n_clusters",
     "learning_rate", "frustum_length", "frustum_angle", "edge_cutoff",
     "features_as_pos", "edges_from_gt"}

\* Full configurations: every key present.  Floats in thousandths.
FullConfigs ==
    [architecture : {"gcn", "gat"},
     dropout_rate : {500},
     collapse_regularization : {100},
     n_clusters : {6},
     learning_rate : {1},
     frustum_length : {1000, 2000},
     frustum_angle : {785},
     edge_cutoff : {400},
     features_as_pos : BOOLEAN,
     edges_from_gt : BOOLEAN]

\* A configuration is a mapping that holds some of the keys.
InnerConfigs ==
    {[k \in ConfigKeys \ M |-> full[k]] :
        full \in FullConfigs,
        M \in {m \in SUBSET ConfigKeys : Cardinality(m) <= MaxMissing}}

\* dataset paths by their components; the last one ends in a separator
DatasetPaths ==
    {<<"data", "salsa_cpp">>, <<"data", "cocktail_party">>, <<"data", "salsa_cpp", "">>}

\* the leading directory instead of the last component
FirstComponent(path) == path[1]
\* os.path.basename(dataset_path)
Basename(path) == path[Len(path)]

\* lines 11-12: if 'common' in best_config: best_config = best_config['common']
Unwrap(config) == IF "common" \in DOMAIN config THEN config["common"] ELSE config

\* The first key of lines 13-22 that the configuration lacks: the KeyError's key.
FirstMissing(cfg, order) ==
    LET missing == {i \in 1..Len(order) : order[i] \notin DOMAIN cfg}
    IN  IF missing = {} THEN ""
        ELSE order[CHOOSE i \in missing : \A j \in missing : i <= j]

\* lines 23-26
EdgesFromGt(cfg) ==
    IF "edges_from_gt" \notin DOMAIN cfg THEN FALSE ELSE cfg["edges_from_gt"]

\* f'{x}' of a Python value: a bool, an int, a float (in thousandths)
FmtBool(b) == IF b THEN "True" ELSE "False"
FmtInt(n) == ToString(n)
\* the fraction digits of repr(float): trailing zeros dropped, at least one digit
RECURSIVE FracDigits(_, _)
FracDigits(frac, width) ==
    IF frac = 0 THEN "0"
    ELSE IF frac % 10 = 0 THEN FracDigits(frac \div 10, width - 1)
    ELSE (IF width = 3 /\ frac < 10 THEN "00"
          ELSE IF (width = 3 /\ frac < 100) \/ (width = 2 /\ frac < 10) THEN "0"
          ELSE "") \o ToString(frac)
FmtFloat(milli) == ToString(milli \div 1000) \o "." \o FracDigits(milli % 1000, 3)

\* f'{x}' of the value a configuration holds under a key
FmtValue(key, v) ==
    CASE key = "architecture" -> v
      [] key = "n_clusters" -> FmtInt(v)
      [] key \in {"features_as_pos", "edges_from_gt"} -> FmtBool(v)
      [] OTHER -> FmtFloat(v)

\* os.path.join of path components
RECURSIVE JoinPath(_)
JoinPath(path) ==
    IF Len(path) = 1 THEN path[1]
    ELSE JoinPath(SubSeq(path, 1, Len(path) - 1)) \o "/" \o path[Len(path)]

\* line 17
n_epochs == 50
\* line 27: range(1, 6)
RangeStart == 1
RangeStop == 6
\* the literals of lines 39-41, floats in thousandths
FrustumLengthLiteral == 1
FrustumAngleLiteral == 785
EdgeCutoffLiteral == 400

\* line 28: os.path.join(dataset_path + f'_fold{fold}', 'train')
DatasetFoldPath(path, k) ==
    JoinPath(<<JoinPath(path) \o "_fold" \o ToString(k), "train">>)

\* line 30: f'experiments_{dataset_folder}_folds_new_edge_weights'
ExperimentFolder(dataset_folder) ==
    "experiments_" \o dataset_folder \o "_folds_new_edge_weights"

Arg(key, value) == [key |-> key, value |-> value]

\* lines 31-47: the command line of one fold
Command(cfg, path, k) ==
    [prog |-> "python src/train.py",
     F |-> ExperimentFolder(Basename(path)),
     args |->
        <<Arg("common.architecture", "\"" \o cfg["architecture"] \o "\""),
          Arg("common.collapse_regularization",
              FmtValue("collapse_regularization", cfg["collapse_regularization"])),
          Arg("common.dropout_rate", FmtValue("dropout_rate", cfg["dropout_rate"])),
          Arg("common.n_clusters", FmtValue("n_clusters", cfg["n_clusters"])),
          Arg("n_epochs", FmtInt(n_epochs)),
          Arg("common.learning_rate", FmtValue("learning_rate", cfg["learning_rate"])),
          Arg("common.frustum_length", FmtInt(FrustumLengthLiteral)),
          Arg("common.frustum_angle", FmtFloat(FrustumAngleLiteral)),
          Arg("common.edge_cutoff", FmtFloat(EdgeCutoffLiteral)),
          Arg("common.features_as_pos", "True"),
          Arg("common.dataset_path", DatasetFoldPath(path, k)),
          Arg("common.edges_from_gt", "False"),
          Arg("common.select_frames_random", "True")>>,
     flag |-> "-d"]

\* subprocess.run as it would behave with check=True
RunRaisesChecked(returncode) == returncode # 0
\* subprocess.run is called without check=True: no exit status makes it raise.
RunRaises(returncode) == FALSE

TfStart ==
    /\ \E c \in InnerConfigs : best_config \in {c, [common |-> c]}
    /\ dataset_path \in DatasetPaths
    /\ tf_pc = "entry"
    /\ fold = 0
    /\ invocations = <<>>
    /\ returncodes = <<>>
    /\ tf_error = ""
    /\ edges_from_gt = FALSE

\* lines 11-22 when a key is absent: the lookup raises KeyError, which nothing catches
TfKeyError ==
    /\ tf_pc = "entry"
    /\ FirstMissing(Unwrap(best_config), LookupOrder) # ""
    /\ tf_error' = FirstMissing(Unwrap(best_config), LookupOrder)
    /\ tf_pc' = "raised"
    /\ UNCHANGED <<best_config, dataset_path, fold, invocations, returncodes, edges_from_gt>>
    /\ UNCHANGED <<graphVars, camVars, figVars>>

\* lines 10-27: every lookup succeeds and the loop is entered
TfReadConfig ==
    /\ tf_pc = "entry"
    /\ FirstMissing(Unwrap(best_config), LookupOrder) = ""
    /\ edges_from_gt' = EdgesFromGt(Unwrap(best_config))
    /\ fold' = RangeStart
    /\ tf_pc' = "loop"
    /\ UNCHANGED <<best_config, dataset_path, invocations, returncodes, tf_error>>
    /\ UNCHANGED <<graphVars, camVars, figVars>>

\* lines 28-47: subprocess.run starts the trainer of the current fold and blocks
TfLaunch ==
    /\ tf_pc = "loop"
    /\ fold < RangeStop
    /\ invocations' = Append(invocations, Command(Unwrap(best_config), dataset_path, fold))
    /\ tf_pc' = "running"
    /\ UNCHANGED <<best_config, dataset_path, fold, returncodes, tf_error, edges_from_gt>>
    /\ UNCHANGED <<graphVars, camVars, figVars>>

\* the trainer process ends with some exit status and subprocess.run returns
TfReturn ==
    /\ tf_pc = "running"
    /\ \E rc \in 0..MaxReturncode :
         /\ returncodes' = Append(returncodes, rc)
         /\ IF RunRaises(rc)
            THEN /\ tf_pc' = "raised"
                 /\ fold' = fold
            ELSE /\ fold' = fold + 1
                 /\ tf_pc' = IF fold + 1 < RangeStop THEN "loop" ELSE "done"
    /\ UNCHANGED <<best_config, dataset_path, invocations, tf_error, edges_from_gt>>
    /\ UNCHANGED <<graphVars, camVars, figVars>>

\* train_folds is not running
TfIdle ==
    /\ best_config = [common |-> [architecture |-> "gcn"]]
    /\ dataset_path = <<"data">>
    /\ tf_pc = "idle"
    /\ fold = 0
    /\ invocations = <<>>
    /\ returncodes = <<>>
    /\ tf_error = ""
    /\ edges_from_gt = FALSE

TfNext == TfKeyError \/ TfReadConfig \/ TfLaunch \/ TfReturn

(***************************************************************************)
(* Scene graphs (src/src/utilities/visualization.py)                       *)
(*                                                                         *)
(* An nx.Graph is [nodes, attr, edges]: its nodes in insertion order, the  *)
(* attribute dict of each node, and its edges as sets of one (a self-loop) *)
(* or two nodes.  'feats' keeps the position feat[:2].                     *)
(***************************************************************************)
Refs == {"a", "b"}

\* line 119-120: the palette of show_results_on_graph
Palette ==
    <<"#38761d", "#01579b", "#fb8c00", "#e77865", "#cbeaad", "#6180c3", "#69de4b",
      "#c72792", "#6d2827", "#1e2157", "#58C0CF", "#167C54", "#B76E09", "#265A98",
      "#AE45ED", "#98900B", "#85D54B">>

Labels == 0..MaxLabel
NodeIds == 1..MaxNodes
EdgesOver(nodes) == {{p, q} : p \in nodes, q \in nodes}

EmptyGraph == [nodes |-> <<>>, attr |-> <<>>, edges |-> {}]

\* the matplotlib axes drawn on, and an axes nothing has been drawn on
Axes == {"ax", "gt_ax", "pred_ax"}
BlankPanel == [drawn |-> FALSE, ops |-> <<>>, raised |-> FALSE]

NodesOf(g) == {g.nodes[i] : i \in 1..Len(g.nodes)}

\* the same graph object instead of a new one
SameObject(src) == src
\* graph.copy() makes a new graph object
NewObject(src) == CHOOSE r \in Refs : r # src

\* the edges are all kept
KeepEdges(edges, removed) == edges
\* Graph.remove_edges_from
RemoveEdgesFrom(edges, removed) == edges \ removed

\* nx.get_node_attributes(graph, name): the nodes holding the attribute, in node order
NodesWithAttr(g, name) ==
    SelectSeq(g.nodes, LAMBDA n : name \in DOMAIN g.attr[n])

\* the keys of reverse_memberships, in order of first insertion (lines 171-173)
RECURSIVE FirstSeen(_, _, _)
FirstSeen(g, ns, seen) ==
    IF ns = <<>> THEN seen
    ELSE LET m == g.attr[Head(ns)]["membership"]
         IN  FirstSeen(g, Tail(ns),
                       IF \E i \in 1..Len(seen) : seen[i] = m THEN seen
                       ELSE Append(seen, m))

\* lines 170-173: reverse_memberships, as the list of its values
ReverseMemberships(g) ==
    LET ns == NodesWithAttr(g, "membership")
        keys == FirstSeen(g, ns, <<>>)
    IN  [i \in 1..Len(keys) |->
            SelectSeq(ns, LAMBDA n : g.attr[n]["membership"] = keys[i])]

\* itertools.combinations(list, 2)
Combinations2(list) ==
    {<<list[i], list[j]>> : i \in 1..Len(list), j \in 1..Len(list)} \cap
    {<<list[i], list[j]>> : <<i, j>> \in {ij \in (1..Len(list)) \X (1..Len(list)) : ij[1] < ij[2]}}

\* lines 166-177: get_gt_graph on the heap; gives the heap after and the reference returned
GetGtGraph(h, src) ==
    LET r == NewObject(src)
        h0 == [h EXCEPT ![r] = h[src]]
        h1 == [h0 EXCEPT ![r].edges = RemoveEdgesFrom(@, h0[src].edges)]
        groups == ReverseMemberships(h1[src])
        added == UNION {{{p[1], p[2]} : p \in Combinations2(groups[i])} :
                            i \in 1..Len(groups)}
        h2 == [h1 EXCEPT ![r].edges = @ \cup added]
    IN  [heap |-> h2, ref |-> r]

\* Input graphs of get_gt_graph: any edges, a membership on some of the nodes.
GtNodeAttrs ==
    [membership : Labels, person_no : NodeIds] \cup [person_no : NodeIds]

GtInputGraphs ==
    {[nodes |-> [i \in 1..n |-> i], attr |-> at, edges |-> e] :
        n \in 1..MaxNodes,
        at \in UNION {{a \in [1..k -> GtNodeAttrs] : \A i \in 1..k : a[i].person_no = i} :
                        k \in 1..MaxNodes},
        e \in {es \in SUBSET EdgesOver(NodeIds) : Cardinality(es) <= MaxInputEdges}}

GtStart ==
    /\ \E g \in GtInputGraphs :
          /\ DOMAIN g.attr = 1..Len(g.nodes)
          /\ g.edges \subseteq EdgesOver(NodesOf(g))
          /\ heap = [r \in Refs |-> IF r = "a" THEN g ELSE EmptyGraph]
    /\ gt_ref = ""
    /\ gt_input = EmptyGraph
    /\ gt_calls = 0
    /\ panels = [ax \in Axes |-> BlankPanel]

GraphIdle ==
    /\ heap = [r \in Refs |-> EmptyGraph]
    /\ gt_ref = ""
    /\ gt_input = EmptyGraph
    /\ gt_calls = 0
    /\ panels = [ax \in Axes |-> BlankPanel]

\* get_gt_graph(graph) on the caller's graph
GetGtGraphOfInput ==
    /\ gt_calls = 0
    /\ LET res == GetGtGraph(heap, "a")
       IN  /\ heap' = res.heap
           /\ gt_ref' = res.ref
    /\ gt_input' = heap["a"]
    /\ gt_calls' = 1
    /\ UNCHANGED <<panels, tfVars, camVars, figVars>>

\* get_gt_graph applied to the graph it returned
GetGtGraphOfOutput ==
    /\ gt_calls \in 1..(MaxGtCalls - 1)
    /\ LET res == GetGtGraph(heap, gt_ref)
       IN  /\ heap' = res.heap
           /\ gt_ref' = res.ref
    /\ gt_input' = heap[gt_ref]
    /\ gt_calls' = gt_calls + 1
    /\ UNCHANGED <<panels, tfVars, camVars, figVars>>

GtNext == GetGtGraphOfInput \/ GetGtGraphOfOutput

(***************************************************************************)
(* draw_gt_graph (lines 196-259): the hulls, lines and markers of a panel. *)
(* A panel is [drawn, ops, raised]: the drawing calls made on the axes in  *)
(* order, and whether the call ended in an exception.                      *)
(***************************************************************************)
DrawOp(op, label, points, color) ==
    [op |-> op, label |-> label, points |-> points, color |-> color]

\* np.unique: the distinct values in ascending order
RECURSIVE Ascending(_)
Ascending(set) ==
    IF set = {} THEN <<>>
    ELSE LET least == CHOOSE x \in set : \A y \in set : x <= y
         IN  <<least>> \o Ascending(set \ {least})

\* lines 215-217: the person numbers of each membership, memberships ascending
Groups(g) ==
    LET ns == NodesWithAttr(g, "person_no")
        ms == NodesWithAttr(g, "membership")
        person_ids == [i \in 1..Len(ns) |-> g.attr[ns[i]]["person_no"]]
        membership == [i \in 1..Len(ms) |-> g.attr[ms[i]]["membership"]]
        unique == Ascending({membership[i] : i \in 1..Len(membership)})
        where(m) == SelectSeq([i \in 1..Len(membership) |-> i],
                              LAMBDA i : membership[i] = m)
    IN  [k \in 1..Len(unique) |->
            [label |-> unique[k],
             members |-> [j \in 1..Len(where(unique[k])) |->
                             person_ids[where(unique[k])[j]]]]]

Cross(p, q, r) == (q[1] - p[1]) * (r[2] - p[2]) - (q[2] - p[2]) * (r[1] - p[1])

\* scipy.spatial.ConvexHull (line 227) raises QhullError when the points do not
\* span the plane: no three of them form a triangle.
HullFails(points) ==
    ~ \E i, j, k \in 1..Len(points) : Cross(points[i], points[j], points[k]) # 0

\* lines 220-233 for one group: the drawing calls, and whether ConvexHull raised
DrawGroup(g, group) ==
    LET points == [i \in 1..Len(group.members) |-> g.attr[group.members[i]]["feats"]]
        group_color == g.attr[group.members[Len(group.members)]]["color"]
        persons == [i \in 1..Len(group.members) |->
                       DrawOp("person", group.label, <<points[i]>>, group_color)]
    IN  IF Len(points) > 2
        THEN IF HullFails(points)
             THEN [ops |-> <<DrawOp("hull", group.label, points, group_color)>>,
                   raised |-> TRUE]
             ELSE [ops |-> <<DrawOp("hull", group.label, points, group_color),
                             DrawOp("fill", group.label, points, group_color)>>
                           \o persons,
                   raised |-> FALSE]
        ELSE IF Len(points) = 2
        THEN [ops |-> <<DrawOp("line", group.label, points, group_color)>> \o persons,
              raised |-> FALSE]
        ELSE [ops |-> persons, raised |-> FALSE]

\* line 219: the loop over the groups, left at the first exception
RECURSIVE DrawGroups(_, _, _, _)
DrawGroups(g, groups, k, ops) ==
    IF k > Len(groups) THEN [drawn |-> TRUE, ops |-> ops, raised |-> FALSE]
    ELSE LET one == DrawGroup(g, groups[k])
         IN  IF one.raised
             THEN [drawn |-> TRUE, ops |-> ops \o one.ops, raised |-> TRUE]
             ELSE DrawGroups(g, groups, k + 1, ops \o one.ops)

DrawGtGraph(g) == DrawGroups(g, Groups(g), 1, <<>>)

\* the positions a person can stand at
Positions == {<<0, 0>>, <<1, 0>>, <<2, 0>>, <<0, 1>>}

\* lines 278-327: toy_frustum_example, nodes 0..9, membership n // 2
ToyPositions ==
    <<<<0, 0>>, <<1, 0>>, <<3, 3>>, <<4, 3>>, <<6, 6>>, <<7, 6>>,
      <<9, 9>>, <<10, 9>>, <<12, 12>>, <<13, 12>>>>
ToyColors == <<"#27c7bd", "#01579b", "#fb8c00", "#e77865", "#cbeaad">>
ToyGraph ==
    [nodes |-> [i \in 1..Len(ToyPositions) |-> i - 1],
     attr |-> [n \in 0..(Len(ToyPositions) - 1) |->
                 [membership |-> n \div 2,
                  color |-> ToyColors[(n \div 2) + 1],
                  feats |-> ToyPositions[n + 1],
                  person_no |-> n]],
     edges |-> {}]

\* Scene graphs: every node has a membership, a color, a position and its number.
SceneGraphs(maxn) ==
    {[nodes |-> [i \in 1..n |-> i],
      attr |-> [i \in 1..n |-> [membership |-> mem[i],
                               color |-> Palette[mem[i] + 1],
                               feats |-> pos[i],
                               person_no |-> i]],
      edges |-> {}] :
        <<n, mem, pos>> \in
            UNION {{k} \X [1..k -> Labels] \X [1..k -> Positions] : k \in 1..maxn}}

DrawStart ==
    /\ \E g \in SceneGraphs(MaxDrawNodes) \cup {ToyGraph} :
          heap = [r \in Refs |-> IF r = "a" THEN g ELSE EmptyGraph]
    /\ gt_ref = ""
    /\ gt_input = EmptyGraph
    /\ gt_calls = 0
    /\ panels = [ax \in Axes |-> BlankPanel]

\* draw_gt_graph(ax, graph) as show_gt_graph calls it (line 157)
DrawGtGraphCall ==
    /\ ~panels["ax"].drawn
    /\ panels' = [panels EXCEPT !["ax"] = DrawGtGraph(heap["a"])]
    /\ UNCHANGED <<heap, gt_ref, gt_input, gt_calls, tfVars, camVars, figVars>>

DrawNext == DrawGtGraphCall

(***************************************************************************)
(* Claims about draw_gt_graph, checked under SpecDraw.                     *)
(***************************************************************************)
LabelsOf(g) == {g.attr[n]["membership"] : n \in NodesOf(g)}
MembersOf(g, l) == {n \in NodesOf(g) : g.attr[n]["membership"] = l}
OpsOf(panel, op, l) ==
    {i \in 1..Len(panel.ops) : panel.ops[i].op = op /\ panel.ops[i].label = l}

\* C4: a hull is attempted only for a group with at least 3 distinct points, a
\* group of exactly 2 gets the line indicator and no hull, a group of 1 gets
\* neither, every member of every group gets a person marker; the toy graph
\* gets exactly 5 line indicators, each joining the two nodes of one membership.
C4_GroupGeometryPolicy ==
    LET g == heap["a"]
        panel == panels["ax"]
    IN  panel.drawn =>
          /\ \A l \in LabelsOf(g) :
                LET members == MembersOf(g, l)
                IN  /\ OpsOf(panel, "hull", l) # {} =>
                          Cardinality({g.attr[n]["feats"] : n \in members}) >= 3
                    /\ Cardinality(members) = 2 =>
                          /\ Cardinality(OpsOf(panel, "line", l)) = 1
                          /\ OpsOf(panel, "hull", l) = {}
                    /\ Cardinality(members) = 1 =>
                          /\ OpsOf(panel, "line", l) = {}
                          /\ OpsOf(panel, "hull", l) = {}
                    /\ ~panel.raised =>
                          /\ Cardinality(OpsOf(panel, "person", l)) = Cardinality(members)
                          /\ \A n \in members : \E i \in OpsOf(panel, "person", l) :
                                panel.ops[i].points = <<g.attr[n]["feats"]>>
          /\ g = ToyGraph =>
                /\ Cardinality({i \in 1..Len(panel.ops) : panel.ops[i].op = "line"}) = 5
                /\ \A l \in LabelsOf(g) :
                      \A i \in OpsOf(panel, "line", l) :
                          {panel.ops[i].points[j] : j \in 1..Len(panel.ops[i].points)} =
                              {g.attr[n]["feats"] : n \in MembersOf(g, l)}

\* What the code does instead: the hull is attempted exactly when the group has
\* at least 3 members, however many distinct points they stand at.
C4_HullByMemberCount ==
    LET g == heap["a"]
        panel == panels["ax"]
    IN  panel.drawn =>
          \A l \in LabelsOf(g) :
              (\A k \in LabelsOf(g) : k < l => OpsOf(panel, "person", k) # {}) =>
                  (OpsOf(panel, "hull", l) # {} <=> Cardinality(MembersOf(g, l)) >= 3)

(***************************************************************************)
(* Claims about get_gt_graph, checked under SpecGt.                        *)
(***************************************************************************)
\* the unordered pairs of distinct nodes of g that share a membership label
SameLabelPairs(g) ==
    {{p, q} : <<p, q>> \in
        {pq \in NodesOf(g) \X NodesOf(g) :
            /\ pq[1] # pq[2]
            /\ "membership" \in DOMAIN g.attr[pq[1]]
            /\ "membership" \in DOMAIN g.attr[pq[2]]
            /\ g.attr[pq[1]]["membership"] = g.attr[pq[2]]["membership"]}}

\* C3: whatever edges the input has, get_gt_graph returns a graph with the same
\* nodes whose edges are exactly the pairs of distinct nodes sharing a membership
\* label; applied to its own output it gives the same edge set again.
C3_GtEdgesAreSameLabelPairs ==
    gt_calls > 0 =>
        /\ heap[gt_ref].nodes = gt_input.nodes
        /\ heap[gt_ref].attr = gt_input.attr
        /\ heap[gt_ref].edges = SameLabelPairs(gt_input)
        /\ gt_calls > 1 => heap[gt_ref].edges = gt_input.edges

C3_Witness ==
    /\ gt_calls = 2
    /\ heap[gt_ref].edges # {}
    /\ Len(heap[gt_ref].nodes) > 2
    /\ \E p, q \in NodesOf(gt_input) : p # q /\ {p, q} \notin heap[gt_ref].edges

(***************************************************************************)
(* draw_camera_cocktail (lines 79-103).  A line of index.dmp is            *)
(* [image, time]: the file name and the frame time float(...) parses.      *)
(***************************************************************************)
CameraPaths == {"D:\\datasets\\CocktailParty\\cam1", "D:\\datasets\\CocktailParty\\cam2"}

\* an lru_cache that holds nothing
EmptyCache == [filled |-> FALSE, value |-> [frame_times |-> <<>>, image_files |-> <<>>]]

\* lines 85-91: every line but the last one is parsed
ParseIndex(lines) ==
    LET kept == SubSeq(lines, 1, Len(lines) - 1)
    IN  [frame_times |-> [i \in 1..Len(kept) |-> kept[i].time],
         image_files |-> [i \in 1..Len(kept) |-> kept[i].image]]

\* lines 80-91: get_cached_index_file() on a cache: the value, and whether the
\* file had to be opened
GetCachedIndexFile(cache, lines) ==
    IF cache.filled
    THEN [value |-> cache.value, opened |-> FALSE]
    ELSE [value |-> ParseIndex(lines), opened |-> TRUE]

\* lines 80-81: the decorated function, and with it its cache, is made anew by
\* every call of draw_camera_cocktail
CacheOfCall == EmptyCache

\* lines 93-95: np.searchsorted(array, value, side="left") on an ascending
\* array, as a 0-based index
FindNearestIdx(array, value) ==
    Cardinality({i \in 1..Len(array) : array[i] < value})

\* lines 97-99: the lookup of one call; image_files[idx] raises IndexError
\* when idx is past the end
CameraLookup(lines, timestamp) ==
    LET got == GetCachedIndexFile(CacheOfCall, lines)
        idx == FindNearestIdx(got.value.frame_times, timestamp)
        past == idx >= Len(got.value.image_files)
    IN  [opened |-> got.opened,
         frame_times |-> got.value.frame_times,
         idx |-> idx,
         raised |-> past,
         image |-> IF past THEN "" ELSE got.value.image_files[idx + 1]]

Times == 0..MaxTime
Timestamps == 0..(MaxTime + 1)

\* index files: frame times ascending, images named after their line
RECURSIVE AscendingTimes(_)
AscendingTimes(len) ==
    IF len = 0 THEN {<<>>}
    ELSE {Append(ts, t) : <<ts, t>> \in
            {p \in AscendingTimes(len - 1) \X Times :
                p[1] = <<>> \/ p[1][Len(p[1])] < p[2]}}

IndexFiles ==
    {[i \in 1..Len(ts) |-> [image |-> "img" \o ToString(i) \o ".jpg", time |-> ts[i]]] :
        ts \in UNION {AscendingTimes(len) : len \in 0..MaxLines}}

\* an index of two frames and the trailing line
FixedIndex ==
    <<[image |-> "img1.jpg", time |-> 0], [image |-> "img2.jpg", time |-> 2],
      [image |-> "img3.jpg", time |-> 3]>>

NoCall == [path |-> "", timestamp |-> 0, frame_times |-> <<>>, idx |-> 0,
           raised |-> FALSE, image |-> ""]

CamStart ==
    /\ \E f \in IndexFiles :
          index_files = [p \in CameraPaths |->
                            IF p = "D:\\datasets\\CocktailParty\\cam1" THEN f ELSE FixedIndex]
    /\ file_reads = [p \in CameraPaths |-> 0]
    /\ cam_calls = 0
    /\ cam_last = NoCall

CamIdle ==
    /\ index_files = [p \in CameraPaths |-> FixedIndex]
    /\ file_reads = [p \in CameraPaths |-> 0]
    /\ cam_calls = 0
    /\ cam_last = NoCall

\* lines 79-103: one call draw_camera_cocktail(ax, timestamp, camera_path)
DrawCameraCocktail ==
    /\ cam_calls < MaxCamCalls
    /\ \E camera_path \in CameraPaths, timestamp \in Timestamps :
          LET look == CameraLookup(index_files[camera_path], timestamp)
          IN  /\ file_reads' = [file_reads EXCEPT
                                   ![camera_path] = @ + (IF look.opened THEN 1 ELSE 0)]
              /\ cam_last' = [path |-> camera_path, timestamp |-> timestamp,
                              frame_times |-> look.frame_times, idx |-> look.idx,
                              raised |-> look.raised, image |-> look.image]
    /\ cam_calls' = cam_calls + 1
    /\ UNCHANGED <<index_files, tfVars, graphVars, figVars>>

CamNext == DrawCameraCocktail

(***************************************************************************)
(* Claims about draw_camera_cocktail, checked under SpecCamera.            *)
(***************************************************************************)
Distance(a, b) == IF a < b THEN b - a ELSE a - b

\* C5: whenever the parsed index has entries, the lookup selects an existing
\* entry whose frame time is nearest to the requested timestamp, and a timestamp
\* equal to an indexed time selects that entry's image.
C5_NearestEntrySelected ==
    (cam_calls > 0 /\ cam_last.frame_times # <<>>) =>
        LET times == cam_last.frame_times
            chosen == cam_last.idx + 1
        IN  /\ ~cam_last.raised
            /\ chosen \in 1..Len(times)
            /\ \A j \in 1..Len(times) :
                  Distance(times[chosen], cam_last.timestamp)
                      <= Distance(times[j], cam_last.timestamp)
            /\ \A j \in 1..Len(times) :
                  times[j] = cam_last.timestamp =>
                      cam_last.image = "img" \o ToString(j) \o ".jpg"

\* What the lookup gives instead: the first entry whose frame time is not
\* before the timestamp, and IndexError when there is none.
C5_FirstEntryNotBefore ==
    cam_calls > 0 =>
        LET times == cam_last.frame_times
            notBefore == {j \in 1..Len(times) : times[j] >= cam_last.timestamp}
        IN  /\ cam_last.raised <=> notBefore = {}
            /\ ~cam_last.raised =>
                  /\ cam_last.idx + 1 \in notBefore
                  /\ \A j \in notBefore : cam_last.idx + 1 <= j
                  /\ cam_last.image = "img" \o ToString(cam_last.idx + 1) \o ".jpg"

\* C6: over the calls made with one camera_path its index file is opened and
\* parsed at most once.
C6_IndexParsedAtMostOnce ==
    \A p \in CameraPaths : file_reads[p] <= 1

(***************************************************************************)
(* Figures: plot_single_experiment (lines 35-59) and                       *)
(* show_results_on_graph (lines 106-149).                                  *)
(***************************************************************************)
\* plt.figure() / plt.subplots(): the new figure takes the next free number
NewFigure(figs) ==
    IF figs = {} THEN 1
    ELSE 1 + CHOOSE n \in figs : \A m \in figs : m <= n

\* the figure is left open
LeaveOpen(figs, fig) == figs
\* plt.close(fig)
CloseFig(figs, fig) == figs \ {fig}

\* lines 20-32: the series read_metrics looks up in metrics.json
SeriesNames == {"T=2/3 F1 Score", "T=1 F1 Score", "Spectral Loss", "Collapse Loss"}

\* metrics.json: some of the series, each with its numbers of values and of steps
MetricsFiles ==
    {[name \in SeriesNames \ gone |->
        [values |-> MaxSeriesLen, steps |-> steps[name]]] :
        <<gone, steps>> \in
            {{}, {"T=1 F1 Score"}, {"Collapse Loss"}} \X [SeriesNames -> 0..MaxSeriesLen]}

\* plt.plot(steps, values) raises ValueError when the two differ in length
PlotRaises(series) == series.steps # series.values

\* lines 35-59: where plot_single_experiment ends, and the figures open then
PlotSingleExperimentOn(metrics, figs) ==
    IF ~(SeriesNames \subseteq DOMAIN metrics)
    THEN [raised |-> TRUE, figs |-> figs]
    ELSE LET fig == NewFigure(figs)
             figs1 == figs \cup {fig}
         IN  IF PlotRaises(metrics["T=2/3 F1 Score"]) \/ PlotRaises(metrics["T=1 F1 Score"])
             THEN [raised |-> TRUE, figs |-> figs1]
             ELSE LET figs2 == CloseFig(figs1, fig)
                      fig2 == NewFigure(figs2)
                      figs3 == figs2 \cup {fig2}
                  IN  IF PlotRaises(metrics["Spectral Loss"])
                         \/ PlotRaises(metrics["Collapse Loss"])
                      THEN [raised |-> TRUE, figs |-> figs3]
                      ELSE [raised |-> FALSE, figs |-> CloseFig(figs3, fig2)]

NoPredictions == [given |-> FALSE, list |-> <<>>]

\* nx.set_node_attributes(graph, values, name) with values keyed 1..Len(values):
\* keys that are no node of the graph are skipped
SetNodeAttributes(g, values, name) ==
    [g EXCEPT !.attr =
        [n \in DOMAIN @ |->
            IF n \in 1..Len(values) THEN [@[n] EXCEPT ![name] = values[n]] ELSE @[n]]]

\* lines 128-132: node i+1 takes predictions[i] and the palette color of it
OverwriteWithPredictions(g, predictions) ==
    LET prediction_colors == [k \in 1..Len(predictions) |-> Palette[predictions[k] + 1]]
        groups == [k \in 1..Len(predictions) |-> predictions[k]]
    IN  SetNodeAttributes(SetNodeAttributes(g, prediction_colors, "color"),
                          groups, "membership")

\* lines 111-114: the camera panel; only the CocktailParty branch looks up an index
CameraStep(video_path, timestamp) ==
    IF video_path \in CameraPaths
    THEN CameraLookup(index_files[video_path], timestamp)
    ELSE [opened |-> FALSE, frame_times |-> <<>>, idx |-> 0, raised |-> FALSE, image |-> ""]

\* lines 116-149 after the camera panel: where the call ends, and the heap, the
\* reference of gt_graph and the two panels then.  kwargs lacks 'title' or
\* 'draw_frustum': kwargs['title'] and kwargs.pop('draw_frustum') raise KeyError.
ShowSteps(h, predictions, has_title, has_draw_frustum) ==
    LET blank == [ax \in Axes |-> BlankPanel]
    IN  IF ~has_title
        THEN [stage |-> "suptitle", heap |-> h, ref |-> "", panels |-> blank]
        ELSE LET res == GetGtGraph(h, "a")
             IN  IF ~has_draw_frustum
                 THEN [stage |-> "pop", heap |-> res.heap, ref |-> res.ref, panels |-> blank]
                 ELSE LET gt_panel == DrawGtGraph(res.heap[res.ref])
                          p1 == [blank EXCEPT !["gt_ax"] = gt_panel]
                      IN  IF gt_panel.raised
                          THEN [stage |-> "gt_panel", heap |-> res.heap, ref |-> res.ref,
                                panels |-> p1]
                          ELSE IF ~predictions.given
                          THEN [stage |-> "done", heap |-> res.heap, ref |-> res.ref,
                                panels |-> p1]
                          ELSE LET h2 == [res.heap EXCEPT !["a"] =
                                             OverwriteWithPredictions(@, predictions.list)]
                                   pred_panel == DrawGtGraph(h2["a"])
                                   p2 == [p1 EXCEPT !["pred_ax"] = pred_panel]
                               IN  [stage |-> IF pred_panel.raised THEN "pred_panel"
                                              ELSE "done",
                                    heap |-> h2, ref |-> res.ref, panels |-> p2]

\* lines 106-149: one call show_results_on_graph(graph, ..., predictions, **kwargs)
\* on the caller's graph heap["a"]
ShowResultsOnGraph(predictions, video_path, has_title, has_draw_frustum) ==
    LET fig == NewFigure(open_figs)
        figs1 == open_figs \cup {fig}
        cam == CameraStep(video_path, heap["a"].attr[1]["ts"])
        out == IF cam.raised
               THEN [stage |-> "camera", heap |-> heap, ref |-> "",
                     panels |-> [ax \in Axes |-> BlankPanel]]
               ELSE ShowSteps(heap, predictions, has_title, has_draw_frustum)
    IN  /\ file_reads' = IF video_path \in CameraPaths /\ cam.opened
                         THEN [file_reads EXCEPT ![video_path] = @ + 1]
                         ELSE file_reads
        /\ heap' = out.heap
        /\ gt_ref' = out.ref
        /\ panels' = out.panels
        /\ show_entry' = heap["a"]
        /\ show_preds' = predictions
        /\ show_stage' = out.stage
        /\ open_figs' = IF out.stage = "done" THEN CloseFig(figs1, fig) ELSE figs1
        /\ any_raised' = (any_raised \/ out.stage # "done")
        /\ fig_calls' = fig_calls + 1
        /\ UNCHANGED <<figs_before, plot_returns, gt_input, gt_calls,
                       index_files, cam_calls, cam_last, tfVars>>

VideoPaths == {"D:\\datasets\\CocktailParty\\cam1", "data/salsa_ps_cam4.avi"}

\* where node i stands: spread over the plane, or all in one row
Spread(i) == <<i % 2, i \div 2>>
Row(i) == <<i, 0>>

\* Graphs given to show_results_on_graph: nodes 1..n, all of one timestamp
ShowGraphs(sizes) ==
    {[nodes |-> [i \in 1..n |-> i],
      attr |-> [i \in 1..n |-> [membership |-> mem[i],
                               color |-> Palette[mem[i] + 1],
                               feats |-> IF spread THEN Spread(i) ELSE Row(i),
                               person_no |-> i,
                               ts |-> ts]],
      edges |-> {}] :
        <<n, mem, spread, ts>> \in
            UNION {{k} \X [1..k -> Labels] \X BOOLEAN \X {1, MaxTime} : k \in sizes}}

PredictionsFor(g) ==
    {NoPredictions} \cup {[given |-> TRUE, list |-> l] : l \in [1..Len(g.nodes) -> Labels]}

FigIdle ==
    /\ open_figs = {}
    /\ figs_before = {}
    /\ any_raised = FALSE
    /\ fig_calls = 0
    /\ plot_returns = 0
    /\ show_entry = EmptyGraph
    /\ show_preds = NoPredictions
    /\ show_stage = "none"

\* one call of show_results_on_graph on a graph of up to MaxShowNodes nodes
ShowStart ==
    /\ \E g \in ShowGraphs(1..MaxShowNodes) :
          heap = [r \in Refs |-> IF r = "a" THEN g ELSE EmptyGraph]
    /\ gt_ref = ""
    /\ gt_input = EmptyGraph
    /\ gt_calls = 0
    /\ panels = [ax \in Axes |-> BlankPanel]

ShowOnce ==
    /\ fig_calls = 0
    /\ \E predictions \in PredictionsFor(heap["a"]), video_path \in VideoPaths,
          has_title \in BOOLEAN, has_draw_frustum \in BOOLEAN :
            ShowResultsOnGraph(predictions, video_path, has_title, has_draw_frustum)

ShowNext == ShowOnce

\* repeated calls of the two functions, some figures open beforehand
FiguresStart ==
    /\ \E g \in ShowGraphs({1}) :
          heap = [r \in Refs |-> IF r = "a" THEN g ELSE EmptyGraph]
    /\ gt_ref = ""
    /\ gt_input = EmptyGraph
    /\ gt_calls = 0
    /\ panels = [ax \in Axes |-> BlankPanel]
    /\ open_figs \in {{}, {1}, {2}}
    /\ figs_before = open_figs
    /\ any_raised = FALSE
    /\ fig_calls = 0
    /\ plot_returns = 0
    /\ show_entry = EmptyGraph
    /\ show_preds = NoPredictions
    /\ show_stage = "none"

ShowResultsCall ==
    /\ fig_calls < MaxFigCalls
    /\ \E predictions \in PredictionsFor(heap["a"]), video_path \in VideoPaths,
          has_title \in BOOLEAN, has_draw_frustum \in BOOLEAN :
            ShowResultsOnGraph(predictions, video_path, has_title, has_draw_frustum)

PlotSingleExperiment ==
    /\ fig_calls < MaxFigCalls
    /\ \E metrics \in MetricsFiles :
          LET res == PlotSingleExperimentOn(metrics, open_figs)
          IN  /\ open_figs' = res.figs
              /\ any_raised' = (any_raised \/ res.raised)
              /\ plot_returns' = plot_returns + (IF res.raised THEN 0 ELSE 1)
    /\ fig_calls' = fig_calls + 1
    /\ UNCHANGED <<figs_before, show_entry, show_preds, show_stage,
                   tfVars, graphVars, camVars>>

FiguresNext == ShowResultsCall \/ PlotSingleExperiment

(***************************************************************************)
(* Claims about the figures, checked under SpecFigures.                    *)
(***************************************************************************)
\* C8: after any sequence of calls of plot_single_experiment and
\* show_results_on_graph that all returned normally, the figures open are the
\* ones that were open before: each figure created has been closed.
C8_FiguresClosedAfterNormalReturn ==
    ~any_raised => open_figs = figs_before

C8_Witness ==
    /\ ~any_raised
    /\ plot_returns > 0
    /\ show_stage = "done"
    /\ figs_before # {}
    /\ fig_calls = MaxFigCalls

(***************************************************************************)
(* Claims about show_results_on_graph, checked under SpecShow.             *)
(***************************************************************************)
ShowOverwrote == show_preds.given /\ show_stage \in {"done", "pred_panel"}

\* C10: in a call with predictions the ground-truth graph is a copy made from
\* the membership and color the input graph had on entry; overwriting the input
\* graph's attributes with the predictions leaves the ground-truth graph's node
\* attributes and edges, and the panel drawn from it, as they were, while the
\* caller's graph carries the predictions afterwards.
C10_GroundTruthKeptFromOverwrite ==
    ShowOverwrote =>
        /\ gt_ref # "a"
        /\ heap[gt_ref].nodes = show_entry.nodes
        /\ heap[gt_ref].attr = show_entry.attr
        /\ heap[gt_ref].edges = SameLabelPairs(show_entry)
        /\ panels["gt_ax"] = DrawGtGraph(show_entry)
        /\ \A k \in 1..Len(show_preds.list) :
              k \in NodesOf(heap["a"]) =>
                  /\ heap["a"].attr[k]["membership"] = show_preds.list[k]
                  /\ heap["a"].attr[k]["color"] = Palette[show_preds.list[k] + 1]

C10_Witness ==
    /\ ShowOverwrote
    /\ show_stage = "done"
    /\ heap[gt_ref].edges # {}
    /\ \E k \in NodesOf(show_entry) :
          show_entry.attr[k]["membership"] # show_preds.list[k]
    /\ \E j, k \in NodesOf(show_entry) :
          /\ show_entry.attr[j]["membership"] = show_entry.attr[k]["membership"]
          /\ show_preds.list[j] # show_preds.list[k]

(***************************************************************************)
(* Claims about train_folds, checked under SpecFolds.                      *)
(***************************************************************************)
TfCfg == Unwrap(best_config)
TfStarted == tf_pc \in {"loop", "running", "done"}

\* the text f'{...}' gives for the value the configuration holds under a key
\* (an absent edges_from_gt counts as False)
TextOfHeldValue(key) ==
    CASE key = "architecture" -> "\"" \o TfCfg[key] \o "\""
      [] key = "edges_from_gt" -> FmtBool(EdgesFromGt(TfCfg))
      [] OTHER -> FmtValue(key, TfCfg[key])

ArgsWithKey(cmd, key) ==
    {i \in 1..Len(cmd.args) : cmd.args[i].key = "common." \o key}

\* C1: every command line train_folds builds holds each required key exactly
\* once, followed by the value the configuration holds for that key.
C1_CommandCarriesConfigValues ==
    \A n \in 1..Len(invocations) : \A key \in ConfigKeys :
        /\ Cardinality(ArgsWithKey(invocations[n], key)) = 1
        /\ \A i \in ArgsWithKey(invocations[n], key) :
              invocations[n].args[i].value = TextOfHeldValue(key)

\* C2 as stated: two different folds of one call receive different -F directories.
C2_OutputDirPerFold ==
    \A j, k \in 1..Len(invocations) : j # k => invocations[j].F # invocations[k].F

\* C2 amended: every fold of one call receives the same -F directory,
\* experiments_<basename of dataset_path>_folds_new_edge_weights; what differs
\* from fold to fold is the dataset path.
C2_OutputDirShared ==
    \A j, k \in 1..Len(invocations) :
        /\ invocations[j].F =
              "experiments_" \o dataset_path[Len(dataset_path)] \o "_folds_new_edge_weights"
        /\ j # k => invocations[j].args[11].value # invocations[k].args[11].value

C2_Witness == tf_pc = "done" /\ Len(invocations) > 1

\* C7: with all required keys present the trainer is invoked for folds 1..5 in
\* that order, each with dataset path <dataset_path>_fold<k>/train, the next
\* one only after the previous process has returned and whatever its exit
\* status; five invocations in all, none repeated.
C7_FiveFoldsInOrder ==
    /\ \A n \in 1..Len(invocations) :
          /\ n <= 5
          /\ Cardinality(ArgsWithKey(invocations[n], "dataset_path")) = 1
          /\ \A i \in ArgsWithKey(invocations[n], "dataset_path") :
                invocations[n].args[i].value =
                    JoinPath(dataset_path) \o "_fold" \o ToString(n) \o "/train"
    /\ Len(invocations) = Len(returncodes) + (IF tf_pc = "running" THEN 1 ELSE 0)
    /\ tf_pc = "loop" => Len(invocations) = fold - 1
    /\ tf_pc = "done" => Len(invocations) = 5
    /\ tf_pc = "raised" => invocations = <<>>
    /\ TfStarted <=> (tf_pc # "entry" /\ \A key \in ConfigKeys \ {"edges_from_gt"} :
                                            key \in DOMAIN TfCfg)

C7_Witness ==
    /\ tf_pc = "done"
    /\ Len(returncodes) = 5
    /\ returncodes[1] # 0
    /\ returncodes[5] = 0

\* C9: a configuration lacking one of the nine looked-up keys makes train_folds
\* fail with the lookup error before any trainer is invoked; lacking only
\* edges_from_gt is no error and counts as False.
C9_MissingKeyFailsBeforeAnyFold ==
    LET required == ConfigKeys \ {"edges_from_gt"}
        lacking == {key \in required : key \notin DOMAIN TfCfg}
    IN  tf_pc # "entry" =>
          /\ lacking # {} <=> tf_pc = "raised"
          /\ tf_pc = "raised" => /\ invocations = <<>>
                                 /\ returncodes = <<>>
                                 /\ tf_error \in lacking
          /\ (lacking = {} /\ "edges_from_gt" \notin DOMAIN TfCfg) =>
                /\ TfStarted
                /\ edges_from_gt = FALSE
                /\ \A n \in 1..Len(invocations) :
                      \A i \in ArgsWithKey(invocations[n], "edges_from_gt") :
                          invocations[n].args[i].value = "False"

C9_Witness ==
    /\ tf_pc = "raised"
    /\ tf_error = "features_as_pos"
    /\ "common" \in DOMAIN best_config

C9_WitnessNoEdgesKey ==
    tf_pc = "done" /\ "edges_from_gt" \notin DOMAIN TfCfg

(***************************************************************************)
(* The specifications: one per function under study; the state of the      *)
(* others stays as it is when they are not running.                        *)
(***************************************************************************)
InitFolds == TfStart /\ GraphIdle /\ CamIdle /\ FigIdle
SpecFolds == InitFolds /\ [][TfNext]_vars

InitGt == GtStart /\ TfIdle /\ CamIdle /\ FigIdle
SpecGt == InitGt /\ [][GtNext]_vars

InitDraw == DrawStart /\ TfIdle /\ CamIdle /\ FigIdle
SpecDraw == InitDraw /\ [][DrawNext]_vars

InitCamera == CamStart /\ TfIdle /\ GraphIdle /\ FigIdle
SpecCamera == InitCamera /\ [][CamNext]_vars

InitShow == ShowStart /\ TfIdle /\ CamIdle /\ FigIdle
SpecShow == InitShow /\ [][ShowNext]_vars

InitFigures == FiguresStart /\ TfIdle /\ CamIdle
SpecFigures == InitFigures /\ [][FiguresNext]_vars

====
